---------------------------- MODULE Spec2Model ----------------------------
(***************************************************************************)
(* Model of the NNI quickstart tutorial.                                   *)
(*                                                                         *)
(* The repository holds two notebooks: the trial script (model.py, stored  *)
(* as src/unnamed/part_000) and the experiment driver (src/main.ipynb).    *)
(* The model follows one run of the trial script, statement by statement,  *)
(* either run directly ("standalone") or launched by an NNI experiment     *)
(* ("experiment"), and records every call the script makes to the nni      *)
(* trial API.  The hyperparameters an experiment may hand to the script    *)
(* are drawn from the search space the driver notebook declares.           *)
(*                                                                         *)
(* Floating point hyperparameters are kept as integers in units of 1e-4    *)
(* (lr 0.001 is 10, momentum 1 is 10000); an accuracy is one of a small    *)
(* number of levels.                                                       *)
(***************************************************************************)
EXTENDS Integers, Sequences, FiniteSets

VARIABLES
    mode,              \* "standalone": run directly; "experiment": run by NNI
    pc,                \* the statement of the trial script to execute next
    params,            \* the script's params dict
    optimized_params,  \* what nni.get_next_parameter() returned
    net,               \* the hyperparameters the model and optimizer were built with
    t,                 \* the loop variable of the training loop
    accuracy,          \* the script's accuracy variable
    calls              \* the calls made to the nni trial API, in order

vars == <<mode, pc, params, optimized_params, net, t, accuracy, calls>>

---------------------------------------------------------------------------
(* Bounds of the model *)

\* accuracies are the levels 0..MaxAcc
MaxAcc == 2

---------------------------------------------------------------------------
(* The trial script's constants: src/unnamed/part_000 *)

\* params = {'features': 512, 'lr': 0.001, 'momentum': 0}
DefaultParams == [features |-> 512, lr |-> 10, momentum |-> 0]

\* epochs = 5
epochs == 5

\* the mapping with no keys: {}
EmptyDict == [k \in {} |-> 0]

\* the value of a variable no statement has assigned yet
Unset == -1

\* what test() may return: correct / size, as a level
Accuracies == 0..MaxAcc

---------------------------------------------------------------------------
(* The driver notebook's search space: src/main.ipynb *)

search_space ==
    [features |-> [type |-> "choice",     value |-> <<128, 256, 512, 1024>>],
     lr       |-> [type |-> "loguniform", value |-> <<1, 1000>>],
     momentum |-> [type |-> "uniform",    value |-> <<0, 10000>>]]

\* the values of one dimension an assignment is drawn from: every value of a
\* choice, the low end and the middle of a range
DimensionValues(dim) ==
    IF dim.type = "choice"
    THEN {dim.value[i] : i \in 1..Len(dim.value)}
    ELSE {dim.value[1], (dim.value[1] + dim.value[2]) \div 2}

\* the hyperparameter sets the tuning algorithm may generate from the search space
Assignments ==
    {a \in [DOMAIN search_space ->
              UNION {DimensionValues(search_space[k]) : k \in DOMAIN search_space}] :
        \A k \in DOMAIN search_space : a[k] \in DimensionValues(search_space[k])}

---------------------------------------------------------------------------
(* The nni trial API as the trial script documents and uses it *)

\* nni.get_next_parameter(): run directly it is a no-op and returns an empty
\* dict; with an experiment it receives hyperparameters from the tuning algorithm
GetNextParameterResults(m) ==
    IF m = "standalone" THEN {EmptyDict} ELSE Assignments

\* a faulty update, params = optimized_params: the dict is replaced, not merged
DictUpdateReplace(d, other) == other

\* dict.update: the keys of other overwrite or extend those of d
DictUpdate(d, other) ==
    [k \in (DOMAIN d) \cup (DOMAIN other) |->
        IF k \in DOMAIN other THEN other[k] ELSE d[k]]

---------------------------------------------------------------------------
(* One run of the trial script *)

Init ==
    /\ mode \in {"standalone", "experiment"}
    /\ pc = "get"
    /\ params = DefaultParams
    /\ optimized_params = EmptyDict
    /\ net = EmptyDict
    /\ t = 0
    /\ accuracy = Unset
    /\ calls = <<>>

\* optimized_params = nni.get_next_parameter()
GetNextParameter ==
    /\ pc = "get"
    /\ \E r \in GetNextParameterResults(mode) : optimized_params' = r
    /\ calls' = Append(calls, <<"get_next_parameter">>)
    /\ pc' = "update"
    /\ UNCHANGED <<mode, params, net, t, accuracy>>

\* params.update(optimized_params)
UpdateParams ==
    /\ pc = "update"
    /\ params' = DictUpdate(params, optimized_params)
    /\ pc' = "build"
    /\ UNCHANGED <<mode, optimized_params, net, t, accuracy, calls>>

\* model = NeuralNetwork().to(device); optimizer = torch.optim.SGD(...);
\* then the for loop is entered with t = 0
BuildModel ==
    /\ pc = "build"
    /\ net' = [features |-> params["features"],
               lr       |-> params["lr"],
               momentum |-> params["momentum"]]
    /\ t' = 0
    /\ pc' = IF 0 < epochs THEN "train" ELSE "final"
    /\ UNCHANGED <<mode, params, optimized_params, accuracy, calls>>

\* train(train_dataloader, model, loss_fn, optimizer)
Train ==
    /\ pc = "train"
    /\ pc' = "test"
    /\ UNCHANGED <<mode, params, optimized_params, net, t, accuracy, calls>>

\* accuracy = test(test_dataloader, model, loss_fn)
Test ==
    /\ pc = "test"
    /\ \E a \in Accuracies : accuracy' = a
    /\ pc' = "report"
    /\ UNCHANGED <<mode, params, optimized_params, net, t, calls>>

\* a faulty loop, nni.report_intermediate_result(accuracy) dedented out of the
\* for loop: only the accuracy of the last epoch is reported
ReportIntermediateAfterLoop ==
    /\ pc = "report"
    /\ calls' = IF t + 1 < epochs
                THEN calls
                ELSE Append(calls, <<"report_intermediate_result", accuracy>>)
    /\ t' = t + 1
    /\ pc' = IF t + 1 < epochs THEN "train" ELSE "final"
    /\ UNCHANGED <<mode, params, optimized_params, net, accuracy>>

\* nni.report_intermediate_result(accuracy), then the next iteration of the loop
ReportIntermediate ==
    /\ pc = "report"
    /\ calls' = Append(calls, <<"report_intermediate_result", accuracy>>)
    /\ t' = t + 1
    /\ pc' = IF t + 1 < epochs THEN "train" ELSE "final"
    /\ UNCHANGED <<mode, params, optimized_params, net, accuracy>>

\* nni.report_final_result(accuracy)
ReportFinal ==
    /\ pc = "final"
    /\ calls' = Append(calls, <<"report_final_result", accuracy>>)
    /\ pc' = "done"
    /\ UNCHANGED <<mode, params, optimized_params, net, t, accuracy>>

Next ==
    \/ GetNextParameter
    \/ UpdateParams
    \/ BuildModel
    \/ Train
    \/ Test
    \/ ReportIntermediate
    \/ ReportFinal

Spec == Init /\ [][Next]_vars

---------------------------------------------------------------------------
(* C5 *)

---------------------------------------------------------------------------
(* C11 *)

\* the calls of one kind among the calls made so far
CallsOf(op) == {i \in 1..Len(calls) : calls[i][1] = op}

\* C11: one run of the trial script follows the trial-side protocol.  At every
\* point of the run get_next_parameter is the first call and is made once, no
\* report precedes it, one report_intermediate has been made per finished
\* epoch, and report_final is made at most once and is the last call.  When
\* the script has ended it has made 5 report_intermediate calls, one per
\* epoch, then exactly one report_final call whose value is that of the last
\* report_intermediate.
C11_TrialProtocol ==
    /\ (calls = <<>>) <=> (pc = "get")
    /\ CallsOf("get_next_parameter") = IF pc = "get" THEN {} ELSE {1}
    /\ CallsOf("report_intermediate_result") =
           IF pc \in {"get", "update", "build"} THEN {} ELSE 2..(t + 1)
    /\ CallsOf("report_final_result") =
           IF pc = "done" THEN {Len(calls)} ELSE {}
    /\ pc \in {"final", "done"} => t = 5
    /\ pc = "done" =>
           /\ Len(calls) = 5 + 2
           /\ calls[Len(calls)][2] = calls[Len(calls) - 1][2]
           /\ calls[Len(calls)][2] \in Accuracies

\* C11 witness: a run launched by an experiment has ended after reporting
\* accuracies that differ between the first and the last epoch
C11_Witness ==
    /\ mode = "experiment"
    /\ pc = "done"
    /\ Len(calls) = epochs + 2
    /\ calls[2][2] # calls[epochs + 1][2]
    /\ calls[epochs + 2] = <<"report_final_result", calls[epochs + 1][2]>>

=============================================================================
